---- MODULE Spec2Model ----
(***************************************************************************)
(* Model of @storehouse/redis-om (src/src/index.ts): the RedisOMManager    *)
(* class (constructor, addModel, connect, close, getModel, isConnected,    *)
(* healthCheck) and the registry helpers getManager, getConnection and     *)
(* getModel.  The redis client, the redis-om Repository and the            *)
(* @storehouse/core Registry are collaborators: they are modelled by the   *)
(* behaviour the manager observes at its call sites.                       *)
(***************************************************************************)
EXTENDS Integers, Sequences, FiniteSets, TLC

(***************************************************************************)
(* Bounds of the model.                                                    *)
(***************************************************************************)
\* Date.now() runs from 0 to MaxTime.
MaxTime == 2
\* settings.config.models holds at most MaxModels schemas.
MaxModels == 2

(***************************************************************************)
(* JavaScript values.  Every value is a record with a field "type", so     *)
(* that any two values can be compared.                                    *)
(***************************************************************************)
Undefined == [type |-> "undefined"]
Str(s) == [type |-> "string", value |-> s]
Buf(s) == [type |-> "Buffer", value |-> s]
Bool(b) == [type |-> "boolean", value |-> b]

\* new Error(message): V8 builds the stack from the name and the message.
Err(msg) ==
  [type |-> "Error", class |-> "Error", message |-> msg,
   stack |-> (IF msg = "" THEN "Error" ELSE "Error: " \o msg) \o "\n    at <anonymous>"]

InstanceOfError(v) == v.type = "Error"

\* Number.prototype.toString for the naturals the model uses.
Digit(d) ==
  CASE d = 0 -> "0" [] d = 1 -> "1" [] d = 2 -> "2" [] d = 3 -> "3" [] d = 4 -> "4"
    [] d = 5 -> "5" [] d = 6 -> "6" [] d = 7 -> "7" [] d = 8 -> "8" [] d = 9 -> "9"

RECURSIVE NumberToString(_)
NumberToString(n) ==
  IF n < 10 THEN Digit(n) ELSE NumberToString(n \div 10) \o Digit(n % 10)

\* String(v) of a value that is not an Error.
String(v) ==
  CASE v.type = "string" -> v.value
    [] v.type = "undefined" -> "undefined"
    [] v.type = "number" -> NumberToString(v.value)
    [] v.type = "boolean" -> (IF v.value THEN "true" ELSE "false")
    [] OTHER -> "[object Object]"

(***************************************************************************)
(* Names, schemas and the errors of @storehouse/core.                      *)
(***************************************************************************)
\* An omitted (undefined) string argument.
NoName == "<undefined>"
\* !x for a string argument: undefined and "" are falsy.
Falsy(x) == x \in {NoName, ""}
\* a || b
OrElse(a, b) == IF Falsy(a) THEN b ELSE a

\* The managers a process constructs, and the one the registry constructs.
ManagerIds == {"m1", "m2"}
Solo == {"m1"}
ManagerNames == {"redisom", "legacy"}
ModelNames == {"album", "studio"}

\* new Schema(schemaName, fields): two schemas may declare the same name.
Schemas ==
  { [schemaName |-> "album", fields |-> "v1"],
    [schemaName |-> "album", fields |-> "v2"],
    [schemaName |-> "studio", fields |-> "v1"] }

RECURSIVE SeqsUpTo(_, _)
SeqsUpTo(S, n) ==
  IF n = 0 THEN {<<>>}
  ELSE LET shorter == SeqsUpTo(S, n - 1)
       IN shorter \cup {Append(s, x) : s \in {t \in shorter : Len(t) = n - 1}, x \in S}

\* The values settings.config.models takes (no config is an empty list).
ModelLists == SeqsUpTo(Schemas, MaxModels)

ModelNotFoundError(modelName, managerName) ==
  [type |-> "Error", class |-> "ModelNotFoundError",
   modelName |-> modelName, managerName |-> managerName]
ManagerNotFoundError(managerName) ==
  [type |-> "Error", class |-> "ManagerNotFoundError", managerName |-> managerName]
InvalidManagerConfigError(message) ==
  [type |-> "Error", class |-> "InvalidManagerConfigError", message |-> message]

\* The outcome of a call: it returns a value or throws one.
Return(v) == [kind |-> "return", value |-> v]
Throw(e) == [kind |-> "throw", value |-> e]

(***************************************************************************)
(* The JavaScript Map behind #repositories: entries in insertion order.    *)
(***************************************************************************)
MapHas(map, k) == \E i \in 1..Len(map) : map[i].key = k
\* Map.prototype.get
MapGet(map, k) ==
  IF MapHas(map, k)
  THEN (CHOOSE e \in {map[i] : i \in 1..Len(map)} : e.key = k).value
  ELSE Undefined
\* A faulty variant: an entry that exists is kept and the new value is dropped.
MapSetKeepFirst(map, k, v) ==
  IF MapHas(map, k) THEN map ELSE Append(map, [key |-> k, value |-> v])

\* A faulty variant: setting an entry starts the table afresh.
MapSetAfresh(map, k, v) == <<[key |-> k, value |-> v]>>

\* A faulty variant: every registration adds an entry, also under a name
\* that is registered already.
MapSetAppend(map, k, v) == Append(map, [key |-> k, value |-> v])

\* Map.prototype.set: an existing key keeps its place and takes the new value.
MapSet(map, k, v) ==
  IF MapHas(map, k)
  THEN [i \in 1..Len(map) |-> IF map[i].key = k THEN [key |-> k, value |-> v] ELSE map[i]]
  ELSE Append(map, [key |-> k, value |-> v])
\* Array.from(map.keys())
MapKeys(map) == [i \in 1..Len(map) |-> map[i].key]
Range(s) == {s[i] : i \in 1..Len(s)}

\* createClient(options): the handle of manager m, built but not opened.
\* A faulty variant: one client, created once, serves every manager.
ClientShared(m) == [type |-> "RedisClient", id |-> "shared"]

Client(m) == [type |-> "RedisClient", id |-> m]
\* new Repository(schema, connection)
Repository(schema, client) == [type |-> "Repository", schema |-> schema, connection |-> client]
\* A manager registered in the registry.
ManagerRef(m) == [type |-> "RedisOMManager", id |-> m]
ForeignManager == [type |-> "OtherManager", id |-> "legacy"]
ForeignConnection == [type |-> "OtherConnection", id |-> "legacy"]
ForeignModel(n) == [type |-> "OtherModel", name |-> n]
\* The model names the manager of another kind serves.
ForeignModelNames == {"studio"}

\* randomBytes(3).toString('hex')
RandomHex == {"a3f9c1"}

(***************************************************************************)
(* State.                                                                  *)
(***************************************************************************)
VARIABLES
  built,         \* built[m]: the constructor of manager m has returned
  name,          \* name[m]: this.name
  repositories,  \* repositories[m]: this.#repositories
  connection,    \* connection[m]: the state of this.#connection (the redis client)
  config,        \* config[m]: settings.config.models while no model was added since
  health,        \* health[m]: the healthCheck() call in progress on manager m
  registry,      \* the @storehouse/core registry: managers by name, defaultManager
  now,           \* Date.now()
  store,         \* store[m]: the search index the store holds for each model name
  index,         \* index[m]: the createIndexes()/dropIndexes() call in progress
  last           \* the call the last step completed, with its outcome (NoCall: none)

vars ==
  <<built, name, repositories, connection, config, health, registry, now, store, index, last>>

\* A faulty variant: the constructor opens the connection.
OpenedEagerly == [phase |-> "ready", isOpen |-> TRUE, isReady |-> TRUE]
\* The redis client before connect() and after the socket is gone.
NotOpened == [phase |-> "new", isOpen |-> FALSE, isReady |-> FALSE]
\* No healthCheck() in progress.
Idle == [pc |-> "idle", start |-> 0, calledAt |-> 0, wasOpen |-> FALSE]
\* The store holds no index.
NoIndexes == [n \in ModelNames |-> "none"]
\* No createIndexes() or dropIndexes() in progress.
Quiet ==
  [pc |-> "idle", visited |-> 0, asked |-> <<>>, repository |-> Undefined,
   sent |-> FALSE, was |-> NoIndexes]
\* What an earlier run of the program may have left in the store: nothing,
\* an index of the first definition of every model, or an index of a
\* definition of "album" that no schema declares any more.
PriorIndexes ==
  { NoIndexes,
    [n \in ModelNames |-> "v1"],
    [n \in ModelNames |-> IF n = "album" THEN "v0" ELSE "none"] }
\* settings.config.models is no longer what the table was built from.
Consumed == [fresh |-> FALSE, models |-> <<>>]

NoCall == [op |-> "none", target |-> "none", args |-> <<>>, outcome |-> Return(Undefined)]
Call(op, target, args, outcome) ==
  [op |-> op, target |-> target, args |-> args, outcome |-> outcome]

\* No manager is constructed; the stores hold the given indexes.
Started(stores) ==
  /\ built = [m \in ManagerIds |-> FALSE]
  /\ name = [m \in ManagerIds |-> NoName]
  /\ repositories = [m \in ManagerIds |-> <<>>]
  /\ connection = [m \in ManagerIds |-> NotOpened]
  /\ config = [m \in ManagerIds |-> Consumed]
  /\ health = [m \in ManagerIds |-> Idle]
  /\ registry = [managers |-> [n \in ManagerNames |-> Undefined], defaultManager |-> NoName]
  /\ now = 0
  /\ store = stores
  /\ index = [m \in ManagerIds |-> Quiet]
  /\ last = NoCall

\* A store that never held an index.
Init == Started([m \in ManagerIds |-> NoIndexes])

(***************************************************************************)
(* RedisOMManager: constructor and addModel.                               *)
(***************************************************************************)
\* A faulty variant: every registration adds an entry, also under a name in use.
addModelAppend(map, schema, client) ==
  Append(map, [key |-> schema.schemaName, value |-> Repository(schema, client)])

\* addModel(m): this.#repositories.set(m.schemaName, new Repository(m, this.#connection))
addModel(map, schema, client) == MapSet(map, schema.schemaName, Repository(schema, client))

\* settings.config?.models?.forEach((schema) => this.addModel(schema))
RECURSIVE addModels(_, _, _)
addModels(map, models, client) ==
  IF models = <<>> THEN map
  ELSE addModels(addModel(map, Head(models), client), Tail(models), client)

\* settings.name || `RedisOM ${Date.now()}_${randomBytes(3).toString('hex')}`
ManagerName(settingsName, t, hex) ==
  OrElse(settingsName, "RedisOM " \o NumberToString(t) \o "_" \o hex)

\* The state a constructor call leaves manager m in.
Constructed(m, settingsName, models, hex) ==
  /\ ~built[m]
  /\ built' = [built EXCEPT ![m] = TRUE]
  /\ name' = [name EXCEPT ![m] = ManagerName(settingsName, now, hex)]
  /\ repositories' = [repositories EXCEPT ![m] = addModels(<<>>, models, Client(m))]
  /\ connection' = [connection EXCEPT ![m] = NotOpened]
  /\ config' = [config EXCEPT ![m] = [fresh |-> TRUE, models |-> models]]

\* new RedisOMManager({ name?, config: { models } })
NewWith(m, names, lists, suffixes) ==
  \E settingsName \in names, models \in lists, hex \in suffixes :
    /\ Constructed(m, settingsName, models, hex)
    /\ last' = Call("new", m, <<settingsName, models>>, Return(ManagerRef(m)))
    /\ UNCHANGED <<health, registry, now, store, index>>

New(m) == NewWith(m, {NoName, "redisom"}, ModelLists, RandomHex)

\* A subclass or the constructor calls addModel(schema) on a built manager.
AddModelWith(m, schemas) ==
  \E schema \in schemas :
    /\ built[m]
    /\ repositories' = [repositories EXCEPT ![m] = addModel(@, schema, Client(m))]
    /\ config' = [config EXCEPT ![m] = Consumed]
    /\ last' = Call("addModel", m, <<schema>>, Return(schema))
    /\ UNCHANGED <<built, name, connection, health, registry, now, store, index>>

AddModel(m) == AddModelWith(m, Schemas)

\* A faulty variant: the first repository is returned whatever the name.
getModelFirst(m, n) ==
  IF repositories[m] = <<>> THEN Undefined ELSE repositories[m][1].value

\* getModel(name): this.#repositories.get(name)
getModel(m, n) == MapGet(repositories[m], n)

GetModel(m) ==
  \E n \in ModelNames :
    /\ built[m]
    /\ last' = Call("getModel", m, <<n>>, Return(getModel(m, n)))
    /\ UNCHANGED <<built, name, repositories, connection, config, health, registry, now, store, index>>

\* A faulty variant: a duplicate of the client is handed out.
getConnectionDuplicate(m) == [type |-> "RedisClient", id |-> "duplicate"]
\* getConnection(): this.#connection
getConnection(m) == Client(m)

GetConnection(m) ==
  /\ built[m]
  /\ last' = Call("getConnection", m, <<>>, Return(getConnection(m)))
  /\ UNCHANGED <<built, name, repositories, connection, config, health, registry, now, store, index>>

\* A faulty variant: the readiness of the socket is reported.
isConnectedReady(m) == connection[m].isReady
\* isConnected(): this.#connection.isOpen
isConnected(m) == connection[m].isOpen

IsConnected(m) ==
  /\ built[m]
  /\ last' = Call("isConnected", m, <<>>, Return(Bool(isConnected(m))))
  /\ UNCHANGED <<built, name, repositories, connection, config, health, registry, now, store, index>>

(***************************************************************************)
(* connect() and close(), and the redis client behind them.  The client    *)
(* sets isOpen when connect() is called and clears it when quit() is       *)
(* called; isReady holds while its socket is established.                  *)
(***************************************************************************)
\* The errors the redis client raises.
SocketAlreadyOpened == Err("Socket already opened")
ClientClosedError == Err("The client is closed")
ConnectErrors == {Err("connect ECONNREFUSED")}

\* close() and its alias closeConnection(), which returns await this.close().
CloseOps == {"close", "closeConnection"}
\* What the store answers to QUIT.
QuitReply == Str("OK")

\* A faulty variant: connect() returns the connection handle.
ConnectResolvedHandle(m) == Return(Client(m))
\* connect(): return this
ConnectResolved(m) == Return(ManagerRef(m))

\* A faulty variant: connect() reports a failure of its own making.
ConnectRejectedWrapped(e) == Throw(Err("Unable to connect"))
\* connect(): the rejection of the client's connect() is the call's own.
ConnectRejected(e) == Throw(e)

\* A faulty variant: close() drops the acknowledgement.
CloseResolvedVoid(reply) == Return(Undefined)
\* close(): return await this.#connection.quit()
CloseResolved(reply) == Return(reply)

\* connect(): await this.getConnection().connect(), called on an open client.
ConnectRefused(m) ==
  /\ built[m] /\ connection[m].isOpen
  /\ last' = Call("connect", m, <<>>, ConnectRejected(SocketAlreadyOpened))
  /\ UNCHANGED <<built, name, repositories, connection, config, health, registry, now, store, index>>

\* connect(): the client starts to open its socket; the call is suspended.
\* (A caller that reconnects does so after close() has returned.)
ConnectCall(m) ==
  /\ built[m] /\ ~connection[m].isOpen /\ connection[m].phase # "closing"
  /\ connection' = [connection EXCEPT ![m] =
                      [phase |-> "connecting", isOpen |-> TRUE, isReady |-> FALSE]]
  /\ last' = NoCall
  /\ UNCHANGED <<built, name, repositories, config, health, registry, now, store, index>>

\* connect() resumes: the socket is ready and the call returns this.
ConnectReady(m) ==
  /\ connection[m].phase = "connecting"
  /\ connection' = [connection EXCEPT ![m] =
                      [phase |-> "ready", isOpen |-> TRUE, isReady |-> TRUE]]
  /\ last' = Call("connect", m, <<>>, ConnectResolved(m))
  /\ UNCHANGED <<built, name, repositories, config, health, registry, now, store, index>>

\* connect() resumes: the client could not connect and the call fails with its error.
ConnectFail(m) ==
  \E e \in ConnectErrors :
    /\ connection[m].phase = "connecting"
    /\ connection' = [connection EXCEPT ![m] =
                        [phase |-> "closed", isOpen |-> FALSE, isReady |-> FALSE]]
    /\ last' = Call("connect", m, <<>>, ConnectRejected(e))
    /\ UNCHANGED <<built, name, repositories, config, health, registry, now, store, index>>

\* close(): await this.#connection.quit(), called on a client that is not open.
CloseRefused(m) ==
  \E op \in CloseOps :
    /\ built[m] /\ ~connection[m].isOpen
    /\ last' = Call(op, m, <<>>, Throw(ClientClosedError))
    /\ UNCHANGED <<built, name, repositories, connection, config, health, registry, now, store, index>>

\* close(): the client marks itself closed and sends QUIT; the call is suspended.
\* (A caller closes a connection after connect() has returned.)
CloseCall(m) ==
  /\ built[m] /\ connection[m].phase = "ready"
  /\ connection' = [connection EXCEPT ![m] =
                      [phase |-> "closing", isOpen |-> FALSE, isReady |-> TRUE]]
  /\ last' = NoCall
  /\ UNCHANGED <<built, name, repositories, config, health, registry, now, store, index>>

\* close() resumes: QUIT is acknowledged after every command sent before it.
CloseAck(m) ==
  /\ connection[m].phase = "closing" /\ health[m].pc # "pinging"
  /\ ~(index[m].pc # "idle" /\ index[m].sent)
  /\ connection' = [connection EXCEPT ![m] =
                      [phase |-> "closed", isOpen |-> FALSE, isReady |-> FALSE]]
  /\ \E op \in CloseOps : last' = Call(op, m, <<>>, CloseResolved(QuitReply))
  /\ UNCHANGED <<built, name, repositories, config, health, registry, now, store, index>>

\* Date.now() advances.
Tick ==
  /\ now < MaxTime
  /\ now' = now + 1
  /\ last' = NoCall
  /\ UNCHANGED <<built, name, repositories, connection, config, health, registry, store, index>>

(***************************************************************************)
(* healthCheck().                                                          *)
(***************************************************************************)
\* What await this.#connection.ping() resumes with.
PingReplies == {Str("PONG"), Buf("PONG")}
\* What it raises: the client's errors (Error instances), and primitive
\* values that are no Error, for the String(error) branch of the catch.
PingErrors == {Err("Socket closed unexpectedly"), Err(""), Str("timeout"), Undefined}

\* A faulty variant: the open flag is not tested before the ping.
NotOpenGuardMissing(m) == FALSE

\* if (!this.#connection.isOpen): the check returns without a ping.
NotOpenGuard(m) == ~connection[m].isOpen

\* A faulty variant: the start time is not subtracted.
LatencySinceEpoch(start, t) == t

\* Date.now() - start
Latency(start, t) == t - start

\* error instanceof Error ? error.message : String(error)
ErrorDescription(error) == IF InstanceOfError(error) THEN error.message ELSE String(error)

\* A faulty variant: the message of an Error stands in for its stack.
ErrorDetailMessage(error) == IF InstanceOfError(error) THEN error.message ELSE String(error)

\* error instanceof Error ? error.stack : String(error)
ErrorDetail(error) == IF InstanceOfError(error) THEN error.stack ELSE String(error)

\* The result of the not-open branch.
NotOpenResult(m, start) ==
  [healthy |-> FALSE,
   message |-> "Redis connection is not open",
   details |-> [name |-> name[m],
                isOpen |-> connection[m].isOpen,
                isReady |-> connection[m].isReady],
   timestamp |-> start]

\* The result after the ping has answered: latency = Date.now() - start.
HealthyResult(m, start, pingResult, t) ==
  LET latency == Latency(start, t)
  IN [healthy |-> TRUE,
      message |-> "Redis connection is healthy",
      details |-> [name |-> name[m],
                   isOpen |-> connection[m].isOpen,
                   isReady |-> connection[m].isReady,
                   pingResponse |-> pingResult,
                   models |-> MapKeys(repositories[m]),
                   latency |-> NumberToString(latency) \o "ms"],
      latency |-> latency,
      timestamp |-> start]

\* The result of the catch branch.
UnhealthyResult(m, start, error, t) ==
  [healthy |-> FALSE,
   message |-> "Redis health check failed: " \o ErrorDescription(error),
   details |-> [name |-> name[m],
                isOpen |-> connection[m].isOpen,
                isReady |-> connection[m].isReady,
                error |-> ErrorDetail(error)],
   latency |-> Latency(start, t),
   timestamp |-> start]

\* A faulty variant: no catch, the raised value reaches the caller.
PingRaisedUncaught(m, start, error, t) == Throw(error)

\* catch (error) { return ... }: what the call ends with when the ping raises.
PingRaised(m, start, error, t) == Return(UnhealthyResult(m, start, error, t))

\* What the client saw of a healthCheck() call: the pings sent to it and how
\* the ping ended.
NoPing == [sent |-> 0, outcome |-> "none", value |-> Undefined]
Answered(reply) == [sent |-> 1, outcome |-> "reply", value |-> reply]
\* A faulty variant: a ping that raised is tried once more.
RaisedAfterRetry(error) == [sent |-> 2, outcome |-> "raise", value |-> error]

Raised(error) == [sent |-> 1, outcome |-> "raise", value |-> error]

\* A completed healthCheck() call, with what its caller saw of it: the times
\* of call and return and the open flag at the call.
HealthCall(m, outcome, call, ping) ==
  [op |-> "healthCheck", target |-> m, args |-> <<>>, outcome |-> outcome,
   calledAt |-> call.calledAt, returnedAt |-> now,
   wasOpen |-> call.wasOpen, ping |-> ping]

\* healthCheck() is called: it returns at once on a client that is not open,
\* and else sends a ping and is suspended.  The model follows one call per
\* manager at a time; calls share no state, so a second one adds none.
HealthCheckCall(m) ==
  /\ built[m] /\ health[m].pc = "idle"
  /\ LET start == now
         call == [pc |-> "pinging", start |-> start, calledAt |-> now,
                  wasOpen |-> connection[m].isOpen]
     IN IF NotOpenGuard(m)
        THEN /\ last' = HealthCall(m, Return(NotOpenResult(m, start)), call, NoPing)
             /\ UNCHANGED health
        ELSE /\ health' = [health EXCEPT ![m] = call]
             /\ last' = NoCall
  /\ UNCHANGED <<built, name, repositories, connection, config, registry, now, store, index>>

\* The ping answers: an open socket answers commands, and a closing one
\* answers those sent before QUIT.
PingResolve(m) ==
  \E reply \in PingReplies :
    /\ health[m].pc = "pinging"
    /\ connection[m].phase \in {"ready", "closing"}
    /\ last' = HealthCall(m, Return(HealthyResult(m, health[m].start, reply, now)),
                          health[m], Answered(reply))
    /\ health' = [health EXCEPT ![m] = Idle]
    /\ UNCHANGED <<built, name, repositories, connection, config, registry, now, store, index>>

\* The ping raises.
PingReject(m) ==
  \E error \in PingErrors :
    /\ health[m].pc = "pinging"
    /\ last' = HealthCall(m, PingRaised(m, health[m].start, error, now), health[m],
                          Raised(error))
    /\ health' = [health EXCEPT ![m] = Idle]
    /\ UNCHANGED <<built, name, repositories, connection, config, registry, now, store, index>>

(***************************************************************************)
(* The registry the helpers are given (@storehouse/core), by the contract  *)
(* the helpers use: getManager(name?), getConnection(name?),               *)
(* getModel(managerName, modelName?) and defaultManager.                   *)
(***************************************************************************)
\* The entry the registry holds under a name (the default one for no name).
RegistryEntry(reg, managerName) ==
  LET resolved == OrElse(managerName, reg.defaultManager)
  IN IF resolved \in DOMAIN reg.managers THEN reg.managers[resolved] ELSE Undefined

\* registry.getManager(managerName)
RegistryGetManager(reg, managerName) == RegistryEntry(reg, managerName)

\* registry.getConnection(managerName): the connection of that manager.
RegistryGetConnection(reg, managerName) ==
  LET entry == RegistryEntry(reg, managerName)
  IN CASE entry.type = "RedisOMManager" -> getConnection(entry.id)
       [] entry.type = "OtherManager" -> ForeignConnection
       [] OTHER -> Undefined

\* The model a registered manager serves under a name.
EntryGetModel(entry, modelName) ==
  CASE entry.type = "RedisOMManager" -> getModel(entry.id, modelName)
    [] entry.type = "OtherManager" ->
         (IF modelName \in ForeignModelNames THEN ForeignModel(modelName) ELSE Undefined)
    [] OTHER -> Undefined

\* registry.getModel(managerName, modelName): one name is a model of the
\* default manager, two names are a manager and its model.
RegistryGetModel(reg, managerName, modelName) ==
  IF modelName = NoName
  THEN EntryGetModel(RegistryEntry(reg, NoName), managerName)
  ELSE EntryGetModel(RegistryEntry(reg, managerName), modelName)

\* Storehouse.add({ redisom: { type: RedisOMManager, config: { models } } }):
\* the registry builds the manager under its key; the first manager added
\* becomes the default one.
StorehouseAdd(m) ==
  \E models \in ModelLists, hex \in RandomHex :
    /\ registry.managers["redisom"] = Undefined
    /\ Constructed(m, "redisom", models, hex)
    /\ registry' = [managers |-> [registry.managers EXCEPT !["redisom"] = ManagerRef(m)],
                    defaultManager |-> OrElse(registry.defaultManager, "redisom")]
    /\ last' = Call("Storehouse.add", m, <<"redisom", models>>, Return(Undefined))
    /\ UNCHANGED <<health, now, store, index>>

\* Storehouse.add of a manager of another kind.
StorehouseAddOther ==
  /\ registry.managers["legacy"] = Undefined
  /\ registry' = [managers |-> [registry.managers EXCEPT !["legacy"] = ForeignManager],
                  defaultManager |-> OrElse(registry.defaultManager, "legacy")]
  /\ last' = Call("Storehouse.add", "legacy", <<"legacy">>, Return(Undefined))
  /\ UNCHANGED <<built, name, repositories, connection, config, health, now, store, index>>

(***************************************************************************)
(* The helpers getModel, getManager and getConnection.                     *)
(***************************************************************************)
\* !x for an object or undefined.
Absent(x) == x.type = "undefined"

\* A faulty variant: the kind of the manager is not tested.
InstanceOfAnything(manager) == TRUE

\* manager instanceof RedisOMManager
InstanceOfRedisOMManager(manager) == manager.type = "RedisOMManager"

\* A faulty variant: a manager of another kind counts as missing.
ManagerMissingOrOther(manager) == Absent(manager) \/ ~InstanceOfRedisOMManager(manager)

\* if (!manager)
ManagerMissing(manager) == Absent(manager)

\* getManager(registry, managerName?)
HelperGetManager(reg, managerName) ==
  LET manager == RegistryGetManager(reg, managerName)
  IN IF ManagerMissing(manager)
     THEN Throw(ManagerNotFoundError(OrElse(managerName, reg.defaultManager)))
     ELSE IF ~InstanceOfRedisOMManager(manager)
     THEN Throw(InvalidManagerConfigError(
                  "Manager \"" \o OrElse(managerName, reg.defaultManager)
                    \o "\" is not instance of RedisOMManager"))
     ELSE Return(manager)

\* A faulty variant: the connection is not tested.
ConnectionMissingUntested(conn) == FALSE

\* if (!conn)
ConnectionMissing(conn) == Absent(conn)

\* getConnection(registry, managerName?)
HelperGetConnection(reg, managerName) ==
  LET conn == RegistryGetConnection(reg, managerName)
  IN IF ConnectionMissing(conn)
     THEN Throw(ManagerNotFoundError(OrElse(managerName, reg.defaultManager)))
     ELSE Return(conn)

\* A faulty variant: the error names a manager in both call shapes.
ErrorManagerNameAlways(managerName, modelName) == managerName

\* modelName ? managerName : undefined
ErrorManagerName(managerName, modelName) ==
  IF ~Falsy(modelName) THEN managerName ELSE NoName

\* A faulty variant: the first name is always taken for a manager's.
HelperGetModelOfManager(reg, managerName, modelName) ==
  LET model == EntryGetModel(RegistryEntry(reg, managerName), modelName)
  IN IF Absent(model)
     THEN Throw(ModelNotFoundError(OrElse(modelName, managerName),
                                   ErrorManagerName(managerName, modelName)))
     ELSE Return(model)

\* getModel(registry, managerName, modelName?)
HelperGetModel(reg, managerName, modelName) ==
  LET model == RegistryGetModel(reg, managerName, modelName)
  IN IF Absent(model)
     THEN Throw(ModelNotFoundError(OrElse(modelName, managerName),
                                   ErrorManagerName(managerName, modelName)))
     ELSE Return(model)

\* The names a caller asks for: registered ones, ones that are not, and none.
AskedManagers == ManagerNames \cup {NoName}

CallGetManager ==
  \E managerName \in AskedManagers :
    /\ last' = Call("helper.getManager", "registry", <<managerName>>,
                    HelperGetManager(registry, managerName))
    /\ UNCHANGED <<built, name, repositories, connection, config, health, registry, now, store, index>>

CallGetConnection ==
  \E managerName \in AskedManagers :
    /\ last' = Call("helper.getConnection", "registry", <<managerName>>,
                    HelperGetConnection(registry, managerName))
    /\ UNCHANGED <<built, name, repositories, connection, config, health, registry, now, store, index>>

\* getModel(registry, modelName) and getModel(registry, managerName, modelName)
CallGetModel ==
  \E args \in {<<n, NoName>> : n \in ModelNames} \cup (ManagerNames \X ModelNames) :
    /\ last' = Call("helper.getModel", "registry", args,
                    HelperGetModel(registry, args[1], args[2]))
    /\ UNCHANGED <<built, name, repositories, connection, config, health, registry, now, store, index>>

(***************************************************************************)
(* The connection handle opened by its holder.  The handle the helper      *)
(* getConnection returns is the client itself, so a caller can open it     *)
(* without going through the manager's connect().                          *)
(***************************************************************************)
\* The managers whose handle the registry hands out through the helper.
HandedOut ==
  {m \in ManagerIds :
     \E n \in AskedManagers : HelperGetConnection(registry, n) = Return(Client(m))}

\* conn.connect() on the handle returned by getConnection(registry, name).
HandleConnectCall(m) ==
  /\ m \in HandedOut
  /\ ~connection[m].isOpen /\ connection[m].phase # "closing"
  /\ connection' = [connection EXCEPT ![m] =
                      [phase |-> "opening", isOpen |-> TRUE, isReady |-> FALSE]]
  /\ last' = NoCall
  /\ UNCHANGED <<built, name, repositories, config, health, registry, now, store, index>>

\* conn.connect() resumes: the socket is ready; the client returns itself.
HandleConnectReady(m) ==
  /\ connection[m].phase = "opening"
  /\ connection' = [connection EXCEPT ![m] =
                      [phase |-> "ready", isOpen |-> TRUE, isReady |-> TRUE]]
  /\ last' = Call("handle.connect", m, <<>>, Return(Client(m)))
  /\ UNCHANGED <<built, name, repositories, config, health, registry, now, store, index>>

\* conn.connect() resumes: the client could not connect.
HandleConnectFail(m) ==
  \E e \in ConnectErrors :
    /\ connection[m].phase = "opening"
    /\ connection' = [connection EXCEPT ![m] =
                        [phase |-> "closed", isOpen |-> FALSE, isReady |-> FALSE]]
    /\ last' = Call("handle.connect", m, <<>>, Throw(e))
    /\ UNCHANGED <<built, name, repositories, config, health, registry, now, store, index>>

(***************************************************************************)
(* createIndexes() and dropIndexes(): one awaited request per entry of the *)
(* repository table.                                                       *)
(***************************************************************************)
\* What the store or the transport raises on a request it cannot serve.
StoreErrors == {Err("ERR unknown command")}
\* Destructuring an entry that is not there.
NotIterable == Err("undefined is not iterable")

\* A faulty variant: the entries are visited from the last inserted to the first.
VisitReversed(map, k) == Len(map) + 1 - k
\* this.#repositories.entries(): the k-th entry visited is the k-th inserted.
Visit(map, k) == k

\* A faulty variant: the loop goes one entry past the end of the table.
MoreEntriesPastEnd(map, visited) == visited <= Len(map)
\* for (... of entries): the iterator is live and yields while the table
\* holds more entries than were visited.
MoreEntries(map, visited) == visited < Len(map)

EntryAt(map, p) == IF p \in 1..Len(map) THEN map[p] ELSE Undefined

\* repository.createIndex() served by the store: the index of the schema's
\* name is the one of the repository's schema (built anew if it differs).
CreateIndex(indexes, repository) ==
  [indexes EXCEPT ![repository.schema.schemaName] = repository.schema.fields]
\* repository.dropIndex() served by the store: no index under the schema's
\* name, whether one existed or not.
DropIndex(indexes, repository) ==
  [indexes EXCEPT ![repository.schema.schemaName] = "none"]

IndexOps == {"createIndexes", "dropIndexes"}
\* The record of a completed createIndexes()/dropIndexes(): the names whose
\* repository was asked, in the order of the requests, whether the client
\* accepted the last request, and the indexes the store held at the call.
IndexReturn(op, m, asked, outcome, accepted, was) ==
  [op |-> op, target |-> m, args |-> <<>>, outcome |-> outcome,
   asked |-> asked, accepted |-> accepted, was |-> was]

\* A faulty variant: the failure of a request is swallowed.
RequestFailedIgnored(e) == Return(Undefined)
\* await repository.createIndex() rejected: the rejection leaves the loop
\* and the async function.
RequestFailed(e) == Throw(e)

\* A faulty variant: dropping an index that does not exist is an error.
ServedUnlessUnknown(op, indexes, repository) ==
  IF op = "dropIndexes" /\ indexes[repository.schema.schemaName] = "none"
  THEN Throw(Err("Unknown Index name"))
  ELSE Return(Undefined)
\* What the repository makes of the store's reply to its request: an index
\* is created whatever the store held under the name, and dropping an index
\* the store does not hold is no error.
Served(op, indexes, repository) == Return(Undefined)

\* The loop after `visited` entries: the request for the next entry, or the
\* return when the iterator is exhausted.
IndexLoop(m, op, visited, asked, was) ==
  IF MoreEntries(repositories[m], visited)
  THEN LET entry == EntryAt(repositories[m], Visit(repositories[m], visited + 1))
       IN IF entry = Undefined
          THEN /\ index' = [index EXCEPT ![m] = Quiet]
               /\ last' = IndexReturn(op, m, asked, Throw(NotIterable), TRUE, was)
          ELSE /\ index' = [index EXCEPT ![m] =
                              [pc |-> op, visited |-> visited + 1,
                               asked |-> Append(asked, entry.key),
                               repository |-> entry.value,
                               sent |-> connection[m].isOpen, was |-> was]]
               /\ last' = NoCall
  ELSE /\ index' = [index EXCEPT ![m] = Quiet]
       /\ last' = IndexReturn(op, m, asked, Return(Undefined), TRUE, was)

\* createIndexes() / dropIndexes() is called: it runs to its first await.
IndexCall(m) ==
  \E op \in IndexOps :
    /\ built[m] /\ index[m].pc = "idle"
    /\ IndexLoop(m, op, 0, <<>>, store[m])
    /\ UNCHANGED <<built, name, repositories, connection, config, health, registry, now, store>>

\* The store answers the pending request; the loop goes on unless the
\* repository raises.
IndexAnswer(m) ==
  /\ index[m].pc # "idle" /\ index[m].sent
  /\ connection[m].phase \in {"ready", "closing"}
  /\ LET outcome == Served(index[m].pc, store[m], index[m].repository)
     IN IF outcome.kind = "return"
        THEN /\ store' = [store EXCEPT ![m] =
                            IF index[m].pc = "createIndexes"
                            THEN CreateIndex(@, index[m].repository)
                            ELSE DropIndex(@, index[m].repository)]
             /\ IndexLoop(m, index[m].pc, index[m].visited, index[m].asked, index[m].was)
        ELSE /\ store' = store
             /\ index' = [index EXCEPT ![m] = Quiet]
             /\ last' = IndexReturn(index[m].pc, m, index[m].asked,
                                    RequestFailed(outcome.value), TRUE, index[m].was)
  /\ UNCHANGED <<built, name, repositories, connection, config, health, registry, now>>

\* The pending request fails: a client that was not open refused it, or the
\* store or the transport raised an error.
IndexFail(m) ==
  \E e \in IF index[m].sent THEN StoreErrors ELSE {ClientClosedError} :
    /\ index[m].pc # "idle"
    /\ index' = [index EXCEPT ![m] = Quiet]
    /\ last' = IndexReturn(index[m].pc, m, index[m].asked, RequestFailed(e),
                           index[m].sent, index[m].was)
    /\ UNCHANGED <<built, name, repositories, connection, config, health, registry, now, store>>

(***************************************************************************)
(* A repository in use: search() needs the index of its schema.            *)
(***************************************************************************)
Count == [type |-> "number", value |-> 0]
NoSuchIndex == Err("no such index")
\* A faulty variant: a search is answered whatever the state of the client.
SearchOffline(indexes, client, repository) ==
  IF indexes[repository.schema.schemaName] = "none" THEN Throw(NoSuchIndex)
  ELSE Return(Count)

\* repository.search().return.count()
Search(indexes, client, repository) ==
  IF ~client.isOpen THEN Throw(ClientClosedError)
  ELSE IF indexes[repository.schema.schemaName] = "none" THEN Throw(NoSuchIndex)
  ELSE Return(Count)

RepositorySearch(m) ==
  \E i \in 1..Len(repositories[m]) :
    /\ built[m] /\ connection[m].phase \in {"new", "ready", "closing", "closed"}
    /\ last' = Call("search", m, <<repositories[m][i].key>>,
                    Search(store[m], connection[m], repositories[m][i].value))
    /\ UNCHANGED <<built, name, repositories, connection, config, health, registry, now, store, index>>

\* close() resumes: the connection broke before QUIT was acknowledged.
CloseFail(m) ==
  \E e \in StoreErrors :
    /\ connection[m].phase = "closing"
    /\ connection' = [connection EXCEPT ![m] =
                        [phase |-> "closed", isOpen |-> FALSE, isReady |-> FALSE]]
    /\ \E op \in CloseOps : last' = Call(op, m, <<>>, Throw(e))
    /\ UNCHANGED <<built, name, repositories, config, health, registry, now, store, index>>

(***************************************************************************)
(* The specification.                                                      *)
(***************************************************************************)
Next ==
  \/ \E m \in Solo : New(m)
  \/ \E m \in Solo : StorehouseAdd(m)
  \/ StorehouseAddOther
  \/ \E m \in Solo : AddModel(m)
  \/ \E m \in Solo : GetModel(m)
  \/ \E m \in Solo : GetConnection(m)
  \/ \E m \in Solo : IsConnected(m)
  \/ \E m \in Solo : ConnectRefused(m)
  \/ \E m \in Solo : ConnectCall(m)
  \/ \E m \in Solo : ConnectReady(m)
  \/ \E m \in Solo : ConnectFail(m)
  \/ \E m \in Solo : CloseRefused(m)
  \/ \E m \in Solo : CloseCall(m)
  \/ \E m \in Solo : CloseAck(m)
  \/ \E m \in Solo : CloseFail(m)
  \/ \E m \in Solo : HealthCheckCall(m)
  \/ \E m \in Solo : PingResolve(m)
  \/ \E m \in Solo : PingReject(m)
  \/ CallGetManager
  \/ CallGetConnection
  \/ CallGetModel
  \/ Tick

Spec == Init /\ [][Next]_vars

(***************************************************************************)
(* The manager of the registry at work against the store: connection,      *)
(* indexes, repositories and health checks at one instant of the clock.    *)
(***************************************************************************)
IndexNext ==
  \/ \E m \in Solo : StorehouseAdd(m)
  \/ \E m \in Solo : AddModel(m)
  \/ \E m \in Solo : GetModel(m)
  \/ \E m \in Solo : GetConnection(m)
  \/ \E m \in Solo : IsConnected(m)
  \/ \E m \in Solo : ConnectRefused(m)
  \/ \E m \in Solo : ConnectCall(m)
  \/ \E m \in Solo : ConnectReady(m)
  \/ \E m \in Solo : ConnectFail(m)
  \/ \E m \in Solo : HandleConnectCall(m)
  \/ \E m \in Solo : HandleConnectReady(m)
  \/ \E m \in Solo : HandleConnectFail(m)
  \/ \E m \in Solo : CloseRefused(m)
  \/ \E m \in Solo : CloseCall(m)
  \/ \E m \in Solo : CloseAck(m)
  \/ \E m \in Solo : CloseFail(m)
  \/ \E m \in Solo : IndexCall(m)
  \/ \E m \in Solo : IndexAnswer(m)
  \/ \E m \in Solo : IndexFail(m)
  \/ \E m \in Solo : RepositorySearch(m)
  \/ \E m \in Solo : HealthCheckCall(m)
  \/ \E m \in Solo : PingResolve(m)
  \/ \E m \in Solo : PingReject(m)
  \/ CallGetConnection
  \/ CallGetModel

\* The store of the registry's manager as any earlier run left it.
IndexInit ==
  \E indexes \in PriorIndexes :
    Started([m \in ManagerIds |-> IF m \in Solo THEN indexes ELSE NoIndexes])

IndexSpec == IndexInit /\ [][IndexNext]_vars

(***************************************************************************)
(* The observers of the connection's signals.                              *)
(***************************************************************************)
Signals == {"error", "connect", "ready", "end", "reconnecting"}

\* A faulty variant: no observer is attached for "end".
ObservedButEnd == Signals \ {"end"}
\* #registerConnectionEvents(): the signals an observer is attached for.
Observed == {"error", "connect", "ready", "end", "reconnecting"}

\* A faulty variant, the earlier revision: "end" is logged as information.
SeverityInfoUnlessError(signal) == IF signal = "error" THEN "error" ELSE "info"
\* Log.error / Log.info / Log.warn of the observer of each signal.
Severity(signal) ==
  CASE signal = "error" -> "error"
    [] signal = "end" -> "warn"
    [] OTHER -> "info"

\* The text each observer logs after the tag.
Wording(signal) ==
  CASE signal = "error" -> "Redis Client Error"
    [] signal = "connect" -> "connecting ..."
    [] signal = "ready" -> "connected!"
    [] signal = "end" -> "disconnected!"
    [] OTHER -> "reconnecting ..."

\* The entry the observer of the signal writes: the text is tagged with the
\* manager's name; the error is passed along for "error", the name otherwise.
LogEntry(m, signal, err) ==
  [severity |-> Severity(signal),
   text |-> "[" \o name[m] \o "] " \o Wording(signal),
   arg |-> IF signal = "error" THEN err ELSE Str(name[m])]

\* emit(signal): every observer attached for the signal runs once; an
\* "error" signal that nobody observes is raised by the emitter.
Emitted(m, signal, err) ==
  IF signal \in Observed THEN Return(<<LogEntry(m, signal, err)>>)
  ELSE IF signal = "error" THEN Throw(err)
  ELSE Return(<<>>)

\* The connection of a constructed manager emits a signal.
Emit(m) ==
  \E signal \in Signals, err \in ConnectErrors :
    /\ built[m]
    /\ last' = Call("emit", m, <<signal, err>>, Emitted(m, signal, err))
    /\ UNCHANGED <<built, name, repositories, connection, config, health, registry, now, store, index>>

(***************************************************************************)
(* Two unnamed or named managers constructed by one process, and the       *)
(* signals of their connections.                                           *)
(***************************************************************************)
\* randomBytes(3).toString('hex') of two constructor calls: equal or not.
Suffixes == {"a3f9c1", "07be52"}
\* The schema lists the two managers are constructed from.
PairLists == { << [schemaName |-> "album", fields |-> "v1"] >>,
               << [schemaName |-> "studio", fields |-> "v1"] >> }

NameNext ==
  \/ \E m \in ManagerIds : NewWith(m, {NoName, "redisom"}, PairLists, Suffixes)
  \/ \E m \in ManagerIds : Emit(m)
  \/ \E m \in Solo : ConnectCall(m)
  \/ \E m \in Solo : ConnectReady(m)
  \/ \E m \in Solo : CloseCall(m)
  \/ \E m \in Solo : CloseAck(m)
  \/ Tick

NameSpec == Init /\ [][NameNext]_vars

(***************************************************************************)
(* Two managers at work side by side, each on its own connection and its   *)
(* own store, at one instant of the clock; one suspended health check or   *)
(* index call at a time.                                                   *)
(***************************************************************************)
\* The names of the two managers (README, Multiple Managers).
PairName == [m \in ManagerIds |-> IF m = "m1" THEN "cache" ELSE "queue"]
\* No other manager has a health check or an index call suspended.
Alone(m) ==
  \A o \in ManagerIds \ {m} : health[o].pc = "idle" /\ index[o].pc = "idle"

PairNext ==
  \/ \E m \in ManagerIds : NewWith(m, {PairName[m]}, PairLists, RandomHex)
  \/ \E m \in ManagerIds : AddModelWith(m, {[schemaName |-> "studio", fields |-> "v1"]})
  \/ \E m \in ManagerIds : ConnectCall(m)
  \/ \E m \in ManagerIds : ConnectReady(m)
  \/ \E m \in ManagerIds : ConnectFail(m)
  \/ \E m \in ManagerIds : CloseCall(m)
  \/ \E m \in ManagerIds : CloseAck(m)
  \/ \E m \in ManagerIds : Alone(m) /\ IndexCall(m)
  \/ \E m \in ManagerIds : IndexAnswer(m)
  \/ \E m \in ManagerIds : IndexFail(m)
  \/ \E m \in ManagerIds : Alone(m) /\ HealthCheckCall(m)
  \/ \E m \in ManagerIds : PingResolve(m)
  \/ \E m \in ManagerIds : PingReject(m)

PairSpec == Init /\ [][PairNext]_vars

(***************************************************************************)
(* Properties.  A completed call is read in the state its last step        *)
(* leaves, so the manager's state in a formula is the state at the return. *)
(***************************************************************************)
HealthReturned == last.op = "healthCheck"
HealthResult == last.outcome.value
ModelNamesOf(m) == {repositories[m][i].key : i \in 1..Len(repositories[m])}

C2_NotOpenReturnsWithoutPing ==
  (HealthReturned /\ ~last.wasOpen) =>
    /\ last.outcome.kind = "return"
    /\ HealthResult.healthy = FALSE
    /\ "latency" \notin DOMAIN HealthResult
    /\ "latency" \notin DOMAIN HealthResult.details
    /\ HealthResult.timestamp = last.calledAt
    /\ last.ping.sent = 0
    /\ last.returnedAt = last.calledAt

\* C2 witness: a check on a closed connection has returned, at a time after 0.
C2_Witness ==
  /\ HealthReturned
  /\ ~last.wasOpen
  /\ connection[last.target].phase = "closed"
  /\ last.calledAt > 0
  /\ HealthResult.message = "Redis connection is not open"

\* C3: healthCheck() on an open connection whose ping is answered returns
\* healthy = true with details.pingResponse the reply, details.models the
\* model names registered at the return (each once), latency the time of the
\* return minus the time of the call, details.latency that number followed
\* by "ms", and timestamp the time of the call.
C3_HealthyResultIsExact ==
  (HealthReturned /\ last.ping.outcome = "reply") =>
    /\ last.wasOpen
    /\ last.outcome.kind = "return"
    /\ HealthResult.healthy = TRUE
    /\ HealthResult.details.pingResponse = last.ping.value
    /\ Range(HealthResult.details.models) = ModelNamesOf(last.target)
    /\ Len(HealthResult.details.models) = Cardinality(ModelNamesOf(last.target))
    /\ HealthResult.latency = last.returnedAt - last.calledAt
    /\ HealthResult.details.latency = NumberToString(last.returnedAt - last.calledAt) \o "ms"
    /\ HealthResult.timestamp = last.calledAt

\* C3 witness: a check called at time 1 has returned healthy at time 2 with
\* two models registered and a Buffer as the reply.
C3_Witness ==
  /\ HealthReturned
  /\ last.ping.outcome = "reply"
  /\ last.calledAt = 1 /\ last.returnedAt = 2
  /\ HealthResult.details.latency = "1ms"
  /\ HealthResult.details.models = <<"studio", "album">>
  /\ HealthResult.details.pingResponse = Buf("PONG")

AskedName == IF last.args[1] = NoName THEN registry.defaultManager ELSE last.args[1]
\* The registry holds an entry under that name.
AskedIsRegistered ==
  AskedName \in ManagerNames /\ registry.managers[AskedName] # Undefined
Threw(class) == last.outcome.kind = "throw" /\ last.outcome.value.class = class

\* C5: the helper getManager(registry, name?) throws ManagerNotFound if and
\* only if the registry has no entry under the resolved name (the name given,
\* or the default manager for none, also when no default is configured); the
\* error carries the resolved name, and the helper never returns undefined.
C5_GetManagerNotFoundIffNoEntry ==
  last.op = "helper.getManager" =>
    /\ Threw("ManagerNotFoundError") <=> ~AskedIsRegistered
    /\ Threw("ManagerNotFoundError") => last.outcome.value.managerName = AskedName
    /\ last.outcome.kind = "return" => last.outcome.value # Undefined

\* C5 witness: getManager(registry) with no name and no default manager has
\* thrown ManagerNotFound.
C5_Witness ==
  /\ last.op = "helper.getManager"
  /\ last.args[1] = NoName
  /\ registry.defaultManager = NoName
  /\ Threw("ManagerNotFoundError")

\* C6: the helper getManager(registry, name?) throws InvalidManagerConfig
\* exactly when an entry exists under the resolved name and is no
\* RedisOMManager, and returns the entry exactly when it exists and is one.
C6_GetManagerInvalidIffOtherKind ==
  last.op = "helper.getManager" =>
    LET isOurs == AskedIsRegistered /\ registry.managers[AskedName].type = "RedisOMManager"
    IN /\ Threw("InvalidManagerConfigError") <=> (AskedIsRegistered /\ ~isOurs)
       /\ last.outcome.kind = "return" <=> isOurs
       /\ last.outcome.kind = "return" => last.outcome.value = registry.managers[AskedName]

\* C6 witness: getManager(registry, "legacy") has thrown InvalidManagerConfig
\* while a RedisOMManager is registered under another name.
C6_Witness ==
  /\ last.op = "helper.getManager"
  /\ last.args[1] = "legacy"
  /\ Threw("InvalidManagerConfigError")
  /\ registry.managers["redisom"] # Undefined

\* C7: the helper getConnection(registry, name?) returns the connection of
\* the manager the registry resolves for the name (the default manager for
\* none), which for a RedisOMManager is the handle that manager owns; it
\* throws ManagerNotFound with the resolved name when the registry resolves
\* no connection, and never returns undefined.
C7_GetConnectionReturnsResolvedHandle ==
  last.op = "helper.getConnection" =>
    IF AskedIsRegistered
    THEN /\ last.outcome.kind = "return"
         /\ last.outcome.value # Undefined
         /\ registry.managers[AskedName].type = "RedisOMManager"
              => last.outcome.value = Client(registry.managers[AskedName].id)
         /\ registry.managers[AskedName].type = "OtherManager"
              => last.outcome.value = ForeignConnection
    ELSE /\ Threw("ManagerNotFoundError")
         /\ last.outcome.value.managerName = AskedName

\* C7 witness: getConnection(registry) with no name has returned the handle
\* of the RedisOMManager that is the default manager.
C7_Witness ==
  /\ last.op = "helper.getConnection"
  /\ last.args[1] = NoName
  /\ registry.defaultManager = "redisom"
  /\ last.outcome = Return(Client("m1"))

\* The entry under manager name n serves a model under the name.
Serves(n, modelName) ==
  /\ n \in ManagerNames
  /\ \/ /\ registry.managers[n].type = "RedisOMManager"
        /\ modelName \in ModelNamesOf(registry.managers[n].id)
     \/ /\ registry.managers[n].type = "OtherManager"
        /\ modelName \in ForeignModelNames

\* C8: the helper getModel(registry, m, n) throws ModelNotFound if and only
\* if manager m has no model n, and getModel(registry, n) if and only if the
\* default manager has no model n; the error carries the model name, and the
\* manager name exactly in the call with two names.
C8_GetModelNotFoundIffNoModel ==
  last.op = "helper.getModel" =>
    LET twoNames == last.args[2] # NoName
        manager == IF twoNames THEN last.args[1] ELSE registry.defaultManager
        model == IF twoNames THEN last.args[2] ELSE last.args[1]
    IN /\ Threw("ModelNotFoundError") <=> ~Serves(manager, model)
       /\ last.outcome.kind = "return" <=> Serves(manager, model)
       /\ Threw("ModelNotFoundError") =>
            /\ last.outcome.value.modelName = model
            /\ last.outcome.value.managerName = (IF twoNames THEN last.args[1] ELSE NoName)

\* C8 witness: getModel(registry, "studio") has thrown ModelNotFound, without
\* a manager name, while the default manager serves "album" only.
C8_Witness ==
  /\ last.op = "helper.getModel"
  /\ last.args = <<"studio", NoName>>
  /\ registry.defaultManager = "redisom"
  /\ ModelNamesOf("m1") = {"album"}
  /\ last.outcome = Throw(ModelNotFoundError("studio", NoName))

\* C9: the manager's getModel(name) never throws, in any state of the
\* manager (also before connect and after close): it returns the repository
\* stored under the name, or undefined when none is stored under it.
C9_ManagerGetModelNeverThrows ==
  last.op = "getModel" =>
    LET map == repositories[last.target]
        stored == {i \in 1..Len(map) : map[i].key = last.args[1]}
    IN /\ last.outcome.kind = "return"
       /\ stored = {} => last.outcome.value = Undefined
       /\ \A i \in stored : last.outcome.value = map[i].value

\* C9 witness: on a closed connection getModel has returned undefined for a
\* name that is not stored while another name is.
C9_Witness ==
  /\ last.op = "getModel"
  /\ connection[last.target].phase = "closed"
  /\ repositories[last.target] # <<>>
  /\ last.outcome = Return(Undefined)

\* The names the schemas of a list declare.
DeclaredNames(models) == {models[i].schemaName : i \in 1..Len(models)}

\* C10 as stated: a manager freshly constructed from N schemas has exactly N
\* entries in its model table, keyed by the declared names.
C10_FreshManagerHasNEntries ==
  \A m \in ManagerIds :
    (built[m] /\ config[m].fresh) =>
      /\ Len(repositories[m]) = Len(config[m].models)
      /\ ModelNamesOf(m) = DeclaredNames(config[m].models)

\* C10 amended: a manager freshly constructed from N schemas has one entry
\* for each distinct declared name, keyed by that name: exactly N entries
\* when the N names differ, fewer when a name is declared twice.
C10_FreshManagerHasOneEntryPerName ==
  \A m \in ManagerIds :
    (built[m] /\ config[m].fresh) =>
      /\ ModelNamesOf(m) = DeclaredNames(config[m].models)
      /\ Len(repositories[m]) = Cardinality(DeclaredNames(config[m].models))
      /\ Len(repositories[m]) <= Len(config[m].models)
      /\ (Cardinality(DeclaredNames(config[m].models)) = Len(config[m].models))
           => Len(repositories[m]) = Len(config[m].models)

\* C10 witness: a manager freshly constructed from two schemas that declare
\* the same name holds one entry.
C10_Witness ==
  \E m \in ManagerIds :
    /\ built[m] /\ config[m].fresh
    /\ Len(config[m].models) = 2
    /\ Len(repositories[m]) = 1

\* The positions of the table of manager m that hold an entry under name n.
EntriesUnder(map, n) == {i \in 1..Len(map) : map[i].key = n}

\* C11: registering a schema under a name that is already registered leaves
\* exactly one entry under that name, the repository built from the later
\* registration, raises no error and changes no entry under another name;
\* this holds for addModel() and for the schemas the constructor registers.
C11_SecondRegistrationWins ==
  /\ [](\A m \in ManagerIds :
          (built[m] /\ config[m].fresh) =>
            \A i \in 1..Len(config[m].models) :
              LET schema == config[m].models[i]
                  isLast == \A j \in (i+1)..Len(config[m].models) :
                              config[m].models[j].schemaName # schema.schemaName
              IN isLast =>
                   /\ Cardinality(EntriesUnder(repositories[m], schema.schemaName)) = 1
                   /\ MapGet(repositories[m], schema.schemaName)
                        = Repository(schema, Client(m)))
  /\ [][last'.op = "addModel" =>
          LET m == last'.target
              schema == last'.args[1]
          IN /\ last'.outcome.kind = "return"
             /\ Cardinality(EntriesUnder(repositories'[m], schema.schemaName)) = 1
             /\ MapGet(repositories'[m], schema.schemaName) = Repository(schema, Client(m))
             /\ \A n \in ModelNames \ {schema.schemaName} :
                  /\ EntriesUnder(repositories'[m], n) = EntriesUnder(repositories[m], n)
                  /\ MapGet(repositories'[m], n) = MapGet(repositories[m], n)]_vars

\* C11 witness: a manager constructed from two schemas that both declare
\* "album" holds one entry under "album", the repository of the second.
C11_Witness ==
  \E m \in ManagerIds :
    /\ built[m] /\ config[m].fresh
    /\ config[m].models = << [schemaName |-> "album", fields |-> "v1"],
                             [schemaName |-> "album", fields |-> "v2"] >>
    /\ repositories[m] =
         << [key |-> "album",
             value |-> Repository([schemaName |-> "album", fields |-> "v2"], Client(m))] >>

\* A createIndexes() or dropIndexes() call has completed.
IndexReturned == last.op \in IndexOps
\* The first k names of the table, in insertion order.
FirstKeys(map, k) == SubSeq(MapKeys(map), 1, k)
\* The store holds an index under the name.
Indexed(m, n) == store[m][n] # "none"

\* C12: createIndexes() and dropIndexes() ask the registered repositories
\* one at a time in insertion order: a request is issued only after every
\* earlier one was served.  When a request fails the call fails in that
\* step with that failure, no later repository was asked, the store is left
\* as it was, and the indexes of the earlier repositories stay created
\* (removed).  A call that returns has asked every registered repository.
C12_IndexesOneByOneAbortOnFailure ==
  /\ [](\A m \in ManagerIds :
          index[m].pc # "idle" =>
            /\ index[m].asked = FirstKeys(repositories[m], index[m].visited)
            /\ \A j \in 1..(index[m].visited - 1) :
                 Indexed(m, index[m].asked[j]) <=> index[m].pc = "createIndexes")
  /\ [](IndexReturned =>
          LET m == last.target
              asked == last.asked
          IN /\ Len(asked) <= Len(repositories[m])
             /\ asked = FirstKeys(repositories[m], Len(asked))
             /\ last.outcome.kind = "return" => Len(asked) = Len(repositories[m])
             /\ last.outcome.kind = "throw" =>
                  /\ Len(asked) >= 1
                  /\ last.outcome.value \in StoreErrors \cup {ClientClosedError}
                  /\ \A j \in 1..(Len(asked) - 1) :
                       Indexed(m, asked[j]) <=> last.op = "createIndexes")
  /\ [][\A m \in ManagerIds :
          (index[m].pc # "idle" /\ index'[m].pc = "idle") =>
            /\ last'.op = index[m].pc /\ last'.target = m
            /\ store'[m] # store[m] => last'.outcome.kind = "return"
            /\ last'.outcome.kind = "throw" =>
                 /\ store' = store
                 /\ last'.asked = index[m].asked]_vars

\* C12 witness: createIndexes() on a table of two repositories has failed
\* with the store's error at the first request; the second repository was
\* never asked and has no index.
C12_Witness ==
  /\ last.op = "createIndexes"
  /\ last.outcome.kind = "throw"
  /\ last.outcome.value \in StoreErrors
  /\ MapKeys(repositories[last.target]) = <<"studio", "album">>
  /\ last.asked = <<"studio">>
  /\ ~Indexed(last.target, "album")

\* C13: a manager constructed with no schema has an empty repository table,
\* and createIndexes() (as dropIndexes()) on an empty table issues no
\* request to the store and returns without error, whether the connection
\* is open or not: no request is ever pending on an empty table.
C13_NoSchemaNoIndexRequest ==
  /\ \A m \in ManagerIds :
       /\ (built[m] /\ config[m].fresh /\ config[m].models = <<>>) => repositories[m] = <<>>
       /\ repositories[m] = <<>> => index[m] = Quiet
  /\ (IndexReturned /\ repositories[last.target] = <<>>) =>
       /\ last.outcome = Return(Undefined)
       /\ last.asked = <<>>

\* C13 witness: createIndexes() has returned on a manager constructed with
\* no schema whose connection was never opened.
C13_Witness ==
  /\ last.op = "createIndexes"
  /\ config[last.target].fresh /\ config[last.target].models = <<>>
  /\ repositories[last.target] = <<>>
  /\ connection[last.target].phase = "new"
  /\ last.outcome.kind = "return"

AlbumAndStudio(m) ==
  /\ built[m]
  /\ registry.managers["redisom"] = ManagerRef(m)
  /\ registry.defaultManager = "redisom"
  /\ ModelNamesOf(m) = {"album", "studio"}

\* C14: for a registered manager with the schemas album and studio, each
\* stage of connect(), createIndexes(), getModel(registry, "album"),
\* close(), healthCheck() ends as the sequence requires: a connect() that
\* succeeds leaves the connection open and returns the manager; a
\* createIndexes() that succeeds leaves both names with an index; the helper
\* getModel(registry, "album") returns the repository stored under "album",
\* never undefined; a close() that succeeds returns the store's
\* acknowledgement and leaves the connection not open; and every
\* healthCheck() called or completed while the connection is closed reports
\* healthy = false.
C14_EndToEndStages ==
  \A m \in ManagerIds :
    AlbumAndStudio(m) =>
      /\ (last.op = "connect" /\ last.target = m /\ last.outcome.kind = "return") =>
           /\ last.outcome.value = ManagerRef(m)
           /\ connection[m].isOpen /\ connection[m].isReady
      /\ (last.op = "createIndexes" /\ last.target = m /\ last.outcome.kind = "return") =>
           Indexed(m, "album") /\ Indexed(m, "studio")
      /\ (last.op = "helper.getModel" /\ last.args = <<"album", NoName>>) =>
           /\ last.outcome.kind = "return"
           /\ last.outcome.value # Undefined
           /\ last.outcome.value = MapGet(repositories[m], "album")
           /\ last.outcome.value.schema.schemaName = "album"
      /\ (last.op = "close" /\ last.target = m /\ last.outcome.kind = "return") =>
           /\ last.outcome.value = QuitReply
           /\ ~connection[m].isOpen
      /\ (HealthReturned /\ last.target = m
            /\ (~last.wasOpen \/ connection[m].phase = "closed")) =>
           /\ last.outcome.kind = "return"
           /\ HealthResult.healthy = FALSE

\* C14 witness: the end of the sequence: the store holds the index of the
\* second definition of "album", which only a createIndexes() of this
\* manager on an open connection builds, and the one of "studio"; the
\* connection is closed, and a healthCheck() called on the closed connection
\* has reported healthy = false.
C14_Witness ==
  \E m \in ManagerIds :
    /\ AlbumAndStudio(m)
    /\ store[m] = [n \in ModelNames |-> IF n = "album" THEN "v2" ELSE "v1"]
    /\ connection[m].phase = "closed"
    /\ HealthReturned /\ last.target = m /\ ~last.wasOpen
    /\ HealthResult.healthy = FALSE

\* C15: connect() asks the client to open the connection once and does not
\* retry: when the client's connect() resolves the call returns the manager
\* itself on an open connection; when it rejects the call fails with the
\* client's own error, no further attempt is pending and the manager is
\* left not connected (a call on a connection that is already open fails
\* with the client's refusal and leaves it open).
C15_ConnectOnceReturnsThisOrFails ==
  last.op = "connect" =>
    LET m == last.target
    IN /\ last.outcome.kind = "return" =>
            /\ last.outcome.value = ManagerRef(m)
            /\ connection[m].phase = "ready"
            /\ isConnected(m)
       /\ last.outcome.kind = "throw" =>
            /\ last.outcome.value \in ConnectErrors \cup {SocketAlreadyOpened}
            /\ last.outcome.value \in ConnectErrors =>
                 /\ connection[m].phase = "closed"
                 /\ ~isConnected(m)
            /\ last.outcome.value = SocketAlreadyOpened => isConnected(m)

\* C15 witness: connect() has failed with the client's error and the manager
\* is not connected.
C15_Witness ==
  /\ last.op = "connect"
  /\ last.outcome = Throw(Err("connect ECONNREFUSED"))
  /\ ~isConnected(last.target)
  /\ connection[last.target].phase = "closed"

\* C16: close() on an open connection sends QUIT and completes only when
\* the store has acknowledged it, returning the acknowledgement, a string:
\* while QUIT is unacknowledged no close() has returned.  close() on a
\* connection that is not open (never opened, closed, closing) fails with
\* the client's own error and changes nothing; a close() whose connection
\* breaks before the acknowledgement fails with the transport's error.
C16_CloseReturnsAckOrFails ==
  /\ last.op = "close" =>
       LET m == last.target
       IN /\ last.outcome.kind = "return" =>
               /\ last.outcome.value = QuitReply
               /\ last.outcome.value.type = "string"
               /\ connection[m].phase = "closed"
          /\ last.outcome.kind = "throw" =>
               /\ last.outcome.value \in {ClientClosedError} \cup StoreErrors
               /\ ~isConnected(m)
               /\ connection[m].phase \in {"new", "closing"} =>
                    last.outcome.value = ClientClosedError
  /\ \A m \in ManagerIds :
       (connection[m].phase = "closing" /\ last.op = "close" /\ last.target = m) =>
         last.outcome = Throw(ClientClosedError)

\* C16 witness: close() on an open connection has returned the store's
\* acknowledgement.
C16_Witness ==
  /\ last.op = "close"
  /\ last.outcome = Return(Str("OK"))
  /\ connection[last.target].phase = "closed"
  /\ repositories[last.target] # <<>>

\* C17: construction never opens the connection.  When the constructor has
\* returned the connection is not open and nothing was sent to the store;
\* a connection that is not open becomes open only in a step that calls
\* connect(), on the manager or on its handle; and as long as it was never
\* opened no step (addModel, getModel, getConnection, isConnected,
\* healthCheck, ...) sends a ping or an index request or changes the store.
C17_OnlyConnectOpens ==
  /\ [](last.op \in {"new", "Storehouse.add"} =>
          /\ ~connection[last.target].isOpen
          /\ ~connection[last.target].isReady
          /\ health[last.target].pc = "idle"
          /\ index[last.target].pc = "idle")
  /\ [][\A m \in ManagerIds :
          (~connection[m].isOpen /\ connection'[m].isOpen) =>
            (ConnectCall(m) \/ HandleConnectCall(m))]_vars
  /\ [][\A m \in ManagerIds :
          (connection[m].phase = "new" /\ connection'[m].phase = "new") =>
            /\ store'[m] = store[m]
            /\ health'[m].pc # "pinging"
            /\ ~index'[m].sent]_vars

\* C17 witness: on a manager that was never connected, after an addModel()
\* call, healthCheck() has returned and the connection is still not open.
C17_Witness ==
  /\ HealthReturned
  /\ built[last.target]
  /\ ~config[last.target].fresh
  /\ repositories[last.target] # <<>>
  /\ connection[last.target] = [phase |-> "new", isOpen |-> FALSE, isReady |-> FALSE]
  /\ last.ping.sent = 0

\* C18: the handle the helper getConnection(registry, name) returns for a
\* registered RedisOMManager is the client that manager owns and that every
\* repository of its table is bound to.  So when a caller has opened that
\* handle itself, without the manager's connect(), the manager reports the
\* connection open, healthCheck() would ping, a search on any of its
\* repositories is not refused by the client, and every request that
\* createIndexes() or dropIndexes() issues while the connection is open is
\* accepted by the client.
C18_HandleIsTheManagersConnection ==
  /\ [](last.op = "helper.getConnection" =>
          \A m \in ManagerIds :
            (AskedIsRegistered /\ registry.managers[AskedName] = ManagerRef(m)) =>
              /\ last.outcome = Return(Client(m))
              /\ \A i \in 1..Len(repositories[m]) :
                   repositories[m][i].value.connection = last.outcome.value)
  /\ [](last.op = "handle.connect" /\ last.outcome.kind = "return" =>
          LET m == last.target
          IN /\ last.outcome.value = Client(m)
             /\ registry.managers["redisom"] = ManagerRef(m)
             /\ isConnected(m)
             /\ ~NotOpenGuard(m)
             /\ \A i \in 1..Len(repositories[m]) :
                  Search(store[m], connection[m], repositories[m][i].value)
                    # Throw(ClientClosedError))
  /\ [][\A m \in ManagerIds :
          (connection[m].isOpen /\ index'[m].pc # "idle" /\ index'[m] # index[m]) =>
            index'[m].sent]_vars

\* C18 witness: the handle of the registered manager was opened by its
\* holder; the manager, which holds two repositories, reports the
\* connection open.
C18_Witness ==
  /\ last.op = "handle.connect"
  /\ last.outcome = Return(Client("m1"))
  /\ registry.managers["redisom"] = ManagerRef("m1")
  /\ Len(repositories["m1"]) = 2
  /\ isConnected("m1")

\* C20: isConnected() never throws and returns true exactly when the
\* underlying connection is open: false on a connection that was never
\* opened, true on one that connect() has opened, false on one that is
\* closed.  Whenever it returns false, healthCheck() in the same state takes
\* its not-open branch and returns healthy = false.
C20_IsConnectedIffOpen ==
  last.op = "isConnected" =>
    LET m == last.target
    IN /\ last.outcome.kind = "return"
       /\ last.outcome.value = Bool(connection[m].isOpen)
       /\ connection[m].phase = "new" => last.outcome.value = Bool(FALSE)
       /\ connection[m].phase = "ready" => last.outcome.value = Bool(TRUE)
       /\ connection[m].phase = "closed" => last.outcome.value = Bool(FALSE)
       /\ last.outcome.value = Bool(FALSE) =>
            /\ NotOpenGuard(m)
            /\ NotOpenResult(m, now).healthy = FALSE

\* C20 witness: isConnected() has returned false on a connection that was
\* opened and is being closed, where the socket still reports ready.
C20_Witness ==
  /\ last.op = "isConnected"
  /\ last.outcome = Return(Bool(FALSE))
  /\ connection[last.target].phase = "closing"
  /\ connection[last.target].isReady

\* C21: when the constructor has returned an observer is attached for each
\* of the five signals error, connect, ready, end and reconnecting; every
\* such signal emitted afterwards produces exactly one log entry tagged with
\* the manager's name, at severity error for error, warn for end and info
\* for connect, ready and reconnecting; handling a signal never throws and
\* leaves the manager's name, connection and repository table as they were.
C21_SignalsAreLoggedOnce ==
  /\ [](last.op = "new" =>
          \A signal \in Signals, err \in ConnectErrors :
            LET handled == Emitted(last.target, signal, err)
            IN handled.kind = "return" /\ Len(handled.value) = 1)
  /\ [](last.op = "emit" =>
          LET m == last.target
              signal == last.args[1]
          IN /\ last.outcome.kind = "return"
             /\ Len(last.outcome.value) = 1
             /\ last.outcome.value[1].severity =
                  (IF signal = "error" THEN "error"
                   ELSE IF signal = "end" THEN "warn" ELSE "info")
             /\ last.outcome.value[1].text = "[" \o name[m] \o "] " \o Wording(signal)
             /\ signal = "error" => last.outcome.value[1].arg = last.args[2])
  /\ [][last'.op = "emit" =>
          UNCHANGED <<built, name, repositories, connection, config, health, index, store>>]_vars

\* C21 witness: the connection of an unnamed manager, closed after it was
\* opened, has emitted "end", logged as a warning under the generated name.
C21_Witness ==
  /\ last.op = "emit"
  /\ last.args[1] = "end"
  /\ connection[last.target].phase = "closed"
  /\ name[last.target] = "RedisOM 1_07be52"
  /\ last.outcome.value[1].severity = "warn"
  /\ last.outcome.value[1].text = "[RedisOM 1_07be52] disconnected!"

\* The operations that register models: the constructor and addModel().
Registrations == {"new", "Storehouse.add", "addModel"}

\* C22: the repository table only grows: no step removes a registered name
\* or shortens the table, and the table of a manager changes only in a step
\* that registers a model on that manager.  connect, close, closeConnection,
\* createIndexes, dropIndexes, healthCheck, isConnected, getModel and
\* getConnection, returning or failing, leave every table as it was.
C22_TableOnlyGrows ==
  [][\A m \in ManagerIds :
       /\ Range(MapKeys(repositories[m])) \subseteq Range(MapKeys(repositories'[m]))
       /\ Len(repositories'[m]) >= Len(repositories[m])
       /\ repositories'[m] # repositories[m] =>
            last'.op \in Registrations /\ last'.target = m
       /\ last'.op \notin Registrations => repositories'[m] = repositories[m]]_vars

\* C22 witness: dropIndexes() has failed on a closed connection with two
\* repositories registered, after an index was created while it was open.
C22_Witness ==
  /\ last.op = "dropIndexes"
  /\ last.outcome.kind = "throw"
  /\ Len(repositories[last.target]) = 2
  /\ ~connection[last.target].isOpen
  /\ store[last.target]["album"] = "v2"

\* The names the constructor can synthesize.
GeneratedNames == {ManagerName(NoName, t, hex) : t \in 0..(MaxTime + 1), hex \in Suffixes}

\* C23: the name of a manager is the supplied name when one is supplied;
\* otherwise it is synthesized from the timestamp and a random suffix, and
\* any two managers constructed without a supplied name, two constructed at
\* the same timestamp included, have different names.
C23_NamesSuppliedOrUnique ==
  last.op = "new" =>
    LET m == last.target
    IN IF last.args[1] # NoName
       THEN name[m] = last.args[1]
       ELSE /\ name[m] \in GeneratedNames
            /\ \A o \in ManagerIds \ {m} :
                 built[o] /\ name[o] \in GeneratedNames => name[o] # name[m]

\* C23: the state the claim excludes: two managers constructed without a
\* name at the same timestamp drew the same three random bytes.
C23_SameNameTwice ==
  /\ last.op = "new"
  /\ last.args[1] = NoName
  /\ \A m \in ManagerIds : built[m] /\ name[m] = "RedisOM 0_a3f9c1"

\* What the client or the library can raise in each operation.
RaisedBy(op) ==
  CASE op = "connect" -> ConnectErrors \cup {SocketAlreadyOpened}
    [] op \in CloseOps -> StoreErrors \cup {ClientClosedError}
    [] op \in IndexOps -> StoreErrors \cup {ClientClosedError}

\* C24: connect, close, closeConnection, createIndexes and dropIndexes fail
\* with exactly the error value the client or library raised, neither
\* wrapped nor replaced, and a failure of the client is never turned into a
\* return: connect returns only with the socket ready, close only with the
\* acknowledgement of QUIT, an index operation only when the store accepted
\* the request of every registered repository.
C24_FailuresPassThrough ==
  last.op \in {"connect"} \cup CloseOps \cup IndexOps =>
    LET m == last.target
    IN /\ last.outcome.kind = "throw" =>
            /\ last.outcome.value \in RaisedBy(last.op)
            /\ last.op = "connect" =>
                 (last.outcome.value = SocketAlreadyOpened) = connection[m].isOpen
            /\ last.op \in CloseOps => ~connection[m].isOpen
            /\ last.op \in IndexOps =>
                 (last.outcome.value = ClientClosedError) = ~last.accepted
       /\ last.outcome.kind = "return" =>
            /\ last.op = "connect" =>
                 connection[m].phase = "ready" /\ last.outcome.value = ManagerRef(m)
            /\ last.op \in CloseOps =>
                 connection[m].phase = "closed" /\ last.outcome.value = QuitReply
            /\ last.op \in IndexOps =>
                 last.accepted /\ last.asked = MapKeys(repositories[m])

\* C24 witness: connect() has failed with the client's ECONNREFUSED on a
\* manager whose earlier connection was used to create an index.
C24_Witness ==
  /\ last.op = "connect"
  /\ last.outcome = Throw(Err("connect ECONNREFUSED"))
  /\ store[last.target]["album"] = "v2"
  /\ connection[last.target].phase = "closed"

\* C25: closing removes no repository but makes them unusable: no step that
\* changes the connection changes the table; while the connection is not
\* open getModel() still returns the stored repositories, a search through
\* any of them fails with the client's closed error, and createIndexes() /
\* dropIndexes() on a table that is not empty sends nothing and can only
\* fail with that error; after a later connect() has returned, the same
\* repositories are bound to the open connection and are served again,
\* with no registration in between.
C25_ClosedRepositoriesKeptButUnusable ==
  /\ [][\A m \in ManagerIds :
          connection'[m] # connection[m] => repositories'[m] = repositories[m]]_vars
  /\ [](\A m \in ManagerIds :
          (built[m] /\ ~connection[m].isOpen) =>
            /\ (last.op = "getModel" /\ last.target = m) =>
                 last.outcome = Return(MapGet(repositories[m], last.args[1]))
            /\ \A i \in 1..Len(repositories[m]) :
                 Search(store[m], connection[m], repositories[m][i].value)
                   = Throw(ClientClosedError)
            /\ (last.op = "search" /\ last.target = m) =>
                 last.outcome = Throw(ClientClosedError))
  /\ [][\A m \in ManagerIds :
          /\ (index[m].pc = "idle" /\ index'[m].pc # "idle" /\ ~connection[m].isOpen) =>
               ~index'[m].sent
          /\ (index[m].pc # "idle" /\ ~index[m].sent /\ index'[m] # index[m]) =>
               /\ last'.op = index[m].pc
               /\ last'.outcome = Throw(ClientClosedError)
               /\ store'[m] = store[m]]_vars
  /\ [](\A m \in ManagerIds :
          (last.op = "connect" /\ last.target = m /\ last.outcome.kind = "return") =>
            \A i \in 1..Len(repositories[m]) :
              LET repository == repositories[m][i].value
              IN /\ repository.connection = getConnection(m)
                 /\ Search(store[m], connection[m], repository) # Throw(ClientClosedError)
                 /\ Indexed(m, repositories[m][i].key) =>
                      Search(store[m], connection[m], repository) = Return(Count)
                 /\ Served("createIndexes", store[m], repository).kind = "return")

\* C25 witness: a connect() has just returned on a manager whose store holds
\* an index built over an earlier connection, since closed; the repository
\* registered before that close is found by name and answers a search.
C25_Witness ==
  \E m \in ManagerIds :
    /\ last.op = "connect" /\ last.target = m /\ last.outcome.kind = "return"
    /\ store[m]["album"] = "v2"
    /\ MapHas(repositories[m], "album")
    /\ Search(store[m], connection[m], getModel(m, "album")) = Return(Count)

\* C26: healthCheck() keeps no state between invocations.  An invocation on
\* an open connection sends exactly one ping, with no retry when it raises,
\* and one on a connection that is not open sends none; a returned call
\* leaves nothing of itself behind; its result is determined by the state
\* of the connection at that invocation and by how its own ping ended; and
\* a healthy result comes only from the reply to the invocation's own ping:
\* an invocation made once the connection has closed is never healthy.
C26_HealthCheckKeepsNoState ==
  HealthReturned =>
    LET m == last.target
    IN /\ last.ping.sent = (IF last.wasOpen THEN 1 ELSE 0)
       /\ last.wasOpen = (last.ping.outcome # "none")
       /\ health[m] = Idle
       /\ HealthResult =
            (CASE last.ping.outcome = "none" -> NotOpenResult(m, last.calledAt)
               [] last.ping.outcome = "reply" ->
                    HealthyResult(m, last.calledAt, last.ping.value, last.returnedAt)
               [] last.ping.outcome = "raise" ->
                    UnhealthyResult(m, last.calledAt, last.ping.value, last.returnedAt))
       /\ HealthResult.healthy = (last.ping.outcome = "reply")
       /\ HealthResult.healthy => connection[m].phase # "closed"

\* C26 witness: a check called on an open connection, whose one ping raised
\* after the connection had closed, has returned unhealthy at a later time.
C26_Witness ==
  /\ HealthReturned
  /\ last.wasOpen
  /\ last.ping = [sent |-> 1, outcome |-> "raise", value |-> Err("Socket closed unexpectedly")]
  /\ connection[last.target].phase = "closed"
  /\ HealthResult.healthy = FALSE
  /\ last.returnedAt > last.calledAt

\* C27: every result of healthCheck() with healthy = true reports
\* details.isOpen = true, a close() that runs while the ping is pending
\* included: no interleaving yields a healthy result on a connection that
\* is reported as not open.
C27_HealthyReportsOpen ==
  (HealthReturned /\ HealthResult.healthy) => HealthResult.details.isOpen

\* C27: the state the claim excludes: the check found the connection open
\* and sent its ping, close() was called while the ping was pending, and the
\* ping, sent before QUIT, was answered: the result is healthy and reports
\* the connection as not open.
C27_HealthyWhileClosing ==
  /\ HealthReturned
  /\ last.wasOpen
  /\ last.ping.outcome = "reply"
  /\ connection[last.target].phase = "closing"
  /\ HealthResult.healthy
  /\ ~HealthResult.details.isOpen

\* No element occurs twice in the sequence.
Distinct(s) == \A i, j \in 1..Len(s) : s[i] = s[j] => i = j

\* C28: a createIndexes() or dropIndexes() call that returns has issued
\* exactly one index request per distinct registered name and none under
\* another name; every request of a call goes to the repository that the
\* table holds under the name when the request is issued, so a repository
\* that was overwritten is never asked, and no name is asked twice.
C28_OneRequestPerRegisteredName ==
  /\ [](\A m \in ManagerIds :
          index[m].pc # "idle" =>
            /\ Distinct(index[m].asked)
            /\ Len(index[m].asked) = index[m].visited)
  /\ [][\A m \in ManagerIds :
          (index'[m].pc # "idle" /\ index'[m].visited # index[m].visited) =>
            LET n == index'[m].asked[Len(index'[m].asked)]
            IN /\ index'[m].visited = index[m].visited + 1
               /\ index'[m].asked = Append(index[m].asked, n)
               /\ Cardinality(EntriesUnder(repositories[m], n)) = 1
               /\ index'[m].repository = getModel(m, n)
               /\ index'[m].repository # Undefined]_vars
  /\ [](\A m \in ManagerIds :
          (IndexReturned /\ last.target = m /\ last.outcome.kind = "return") =>
            /\ Distinct(last.asked)
            /\ Range(last.asked) = ModelNamesOf(m)
            /\ Len(last.asked) = Cardinality(ModelNamesOf(m)))

\* C28 witness: createIndexes() has returned on a table whose entry under
\* "album" was overwritten by a second definition: two requests were issued,
\* one per name, and the store holds the index of the second definition.
C28_Witness ==
  \E m \in ManagerIds :
    /\ IndexReturned /\ last.target = m /\ last.op = "createIndexes"
    /\ last.outcome.kind = "return"
    /\ last.asked = <<"album", "studio">>
    /\ getModel(m, "album").schema.fields = "v2"
    /\ store[m] = [n \in ModelNames |-> IF n = "album" THEN "v2" ELSE "v1"]

\* The part of manager m's state that other managers must leave alone.
Owned(m) == <<built[m], name[m], connection[m], repositories[m]>>

\* C29: managers are isolated.  Each manager owns its connection handle, no
\* other manager hands out the same one, and each repository of its table
\* is bound to that handle; a step of connect, close, model registration or
\* an index operation on one manager leaves the connection state and the
\* table of every other manager unchanged, as does every step of a call
\* that completes on another manager; and healthCheck() on a manager
\* reports the name, connection flags and model names of that manager.
C29_ManagersAreIsolated ==
  /\ [](\A m, o \in ManagerIds :
          (built[m] /\ built[o] /\ m # o) =>
            /\ getConnection(m) # getConnection(o)
            /\ \A i \in 1..Len(repositories[m]) :
                 /\ repositories[m][i].value.connection = getConnection(m)
                 /\ repositories[m][i].value.connection # getConnection(o))
  /\ [][\A m, o \in ManagerIds :
          (m # o /\ (Owned(m)' # Owned(m) \/ index'[m] # index[m]
                       \/ health'[m] # health[m] \/ store'[m] # store[m]
                       \/ last'.target = m)) =>
            /\ Owned(o)' = Owned(o)
            /\ index'[o] = index[o] /\ health'[o] = health[o]
            /\ store'[o] = store[o]]_vars
  /\ [](HealthReturned =>
          LET m == last.target
          IN /\ HealthResult.details.name = name[m]
             /\ HealthResult.details.isOpen = connection[m].isOpen
             /\ HealthResult.details.isReady = connection[m].isReady
             /\ HealthResult.healthy => HealthResult.details.models = MapKeys(repositories[m]))

\* C29 witness: healthCheck() on "cache", connected with "album" and
\* "studio" registered, reports healthy with its own name and models while
\* "queue", which holds "studio" alone, is closed after it had connected and
\* created its index.
C29_Witness ==
  /\ HealthReturned /\ last.target = "m1"
  /\ HealthResult.healthy
  /\ HealthResult.details.name = "cache"
  /\ HealthResult.details.isOpen
  /\ HealthResult.details.models = <<"album", "studio">>
  /\ name["m2"] = "queue"
  /\ connection["m2"].phase = "closed"
  /\ MapKeys(repositories["m2"]) = <<"studio">>
  /\ store["m2"]["studio"] = "v1"
  /\ store["m1"] = NoIndexes

====
